---- MODULE Spec2Model ----
(***************************************************************************)
(* logan-logger: the level-filtered dispatch engine (BaseLogger), its two  *)
(* adapters (BrowserLogger, NodeLogger with the optional winston backend), *)
(* child loggers, the runtime-driven factory and the config merge.         *)
(***************************************************************************)
EXTENDS Integers, Sequences, FiniteSets, TLC

(***************************************************************************)
(* Bounds of the model.                                                    *)
(***************************************************************************)
\* loggers alive at once in the tree specification (a root and its descendants)
MaxTree == 2
\* loggers alive at once in the metadata specification (root.child(M1).child(M2))
MaxChain == 3
\* arguments of one mergeConfigs call
MaxSources == 2
\* console groups open at once on one ConsoleGroupLogger
MaxDepth == 3

(***************************************************************************)
(* LogLevel (core/types.ts).                                               *)
(***************************************************************************)
DEBUG == 0
INFO == 1
WARN == 2
ERROR == 3
SILENT == 4
LogLevels == {DEBUG, INFO, WARN, ERROR, SILENT}
\* the levels of the four sugar methods debug/info/warn/error
MethodLevels == {DEBUG, INFO, WARN, ERROR}

(***************************************************************************)
(* Metadata maps.  A map is a total function over Keys whose value Absent  *)
(* stands for "the object has no such own property".                       *)
(***************************************************************************)
Keys == {"a", "b"}
Absent == "absent"
Vals == {"1", "2"}
\* a value whose serialization raises (a getter or toJSON hook that throws)
Thrower == "thrower"
EmptyMeta == [k \in Keys |-> Absent]
MetaOver(V) == [Keys -> V \cup {Absent}]
\* one-key maps only: the small input set of the dispatch specification
SmallMetas == {EmptyMeta, [k \in Keys |-> IF k = "a" THEN "1" ELSE Absent]}
\* Object.keys(m)
ObjectKeys(m) == {k \in Keys : m[k] # Absent}

\* { ...a, ...b }: own properties of b override those of a
SpreadSwapped(a, b) == [k \in Keys |-> IF a[k] # Absent THEN a[k] ELSE b[k]]
Spread(a, b) == [k \in Keys |-> IF b[k] # Absent THEN b[k] ELSE a[k]]

(***************************************************************************)
(* Runtime detection (utils/runtime.ts).                                   *)
(***************************************************************************)
Signals == {"Deno", "Bun", "window", "document", "importScripts", "node"}
RuntimeNames == {"node", "deno", "bun", "browser", "webworker", "unknown"}

detectRuntimeNameBrowserFirst(g) ==
  IF "Deno" \in g THEN "deno"
  ELSE IF "window" \in g /\ "document" \in g THEN "browser"
  ELSE IF "Bun" \in g THEN "bun"
  ELSE IF "importScripts" \in g /\ "window" \notin g THEN "webworker"
  ELSE IF "node" \in g THEN "node"
  ELSE "unknown"
detectRuntimeName(g) ==
  IF "Deno" \in g THEN "deno"
  ELSE IF "Bun" \in g THEN "bun"
  ELSE IF "window" \in g /\ "document" \in g THEN "browser"
  ELSE IF "importScripts" \in g /\ "window" \notin g THEN "webworker"
  ELSE IF "node" \in g THEN "node"
  ELSE "unknown"

getRuntimeCapabilities(runtime) ==
  CASE runtime \in {"node", "deno", "bun"} ->
         [fileSystem |-> TRUE, colorSupport |-> TRUE, processInfo |-> TRUE, streams |-> TRUE]
    [] runtime = "browser" ->
         [fileSystem |-> FALSE, colorSupport |-> TRUE, processInfo |-> FALSE, streams |-> FALSE]
    [] OTHER ->
         [fileSystem |-> FALSE, colorSupport |-> FALSE, processInfo |-> FALSE, streams |-> FALSE]

detectRuntime(g) ==
  [name |-> detectRuntimeName(g), capabilities |-> getRuntimeCapabilities(detectRuntimeName(g))]

(***************************************************************************)
(* Values and their serialization (utils/serialization.ts).  A value is a  *)
(* primitive, a value whose property read or toJSON hook raises, or a      *)
(* reference to a node of the object graph h; a node is an object or an    *)
(* array with two entries.                                                 *)
(***************************************************************************)
Nodes == {"n1", "n2", "n3"}
Slots == {"s1", "s2"}
Prim == "v"
Circular == "[Circular]"
Values == {Prim, Thrower} \cup Nodes
\* the kind of each node: n2 is an array, the others are plain objects
KindOf(n) == IF n = "n2" THEN "array" ELSE "object"
\* the property name of an entry: an index in an array, a key in an object
KeyOf(n, slot) ==
  IF KindOf(n) = "array" THEN (IF slot = "s1" THEN "0" ELSE "1")
  ELSE (IF slot = "s1" THEN "userPassword" ELSE "name")
\* a graph without references
PlainHeap == [n \in Nodes |-> [slot \in Slots |-> Prim]]

\* the outcome of a serialization: the text as a sequence of tokens (the
\* token that opens a node names it), the objects seen so far, whether
\* the call raised, and whether the recursion ran past every node
Text(out, seen) == [out |-> out, seen |-> seen, threw |-> FALSE, diverged |-> FALSE]
Failed(seen, threw, diverged) ==
  [out |-> <<>>, seen |-> seen, threw |-> threw, diverged |-> diverged]

\* a recursion deeper than this has entered some node twice
MaxWalkDepth == Cardinality(Nodes) + 1

\* the replacer of safeStringify on an object or primitive: '[Circular]'
\* for an object already in the WeakSet seen; every other object is added
\* to seen and returned
replacerNoMark(value, seen) ==
  IF value \in Nodes /\ value \in seen THEN [value |-> Circular, seen |-> seen]
  ELSE [value |-> value, seen |-> seen]
replacer(value, seen) ==
  IF value \in Nodes /\ value \in seen THEN [value |-> Circular, seen |-> seen]
  ELSE [value |-> value, seen |-> IF value \in Nodes THEN seen \cup {value} ELSE seen]

\* JSON.stringify(value, replacer): the replacer is applied to a value, then
\* the entries of the object it returned are visited in property order
RECURSIVE walk(_, _, _, _)
walk(h, value, seen, depth) ==
  IF depth = 0 THEN Failed(seen, FALSE, TRUE)
  ELSE IF value = Thrower THEN Failed(seen, TRUE, FALSE)
  ELSE LET r == replacer(value, seen)
       IN IF r.value \notin Nodes THEN Text(<<r.value>>, r.seen)
          ELSE LET first == walk(h, h[value]["s1"], r.seen, depth - 1)
                   second == walk(h, h[value]["s2"], first.seen, depth - 1)
               IN IF first.threw \/ first.diverged THEN first
                  ELSE IF second.threw \/ second.diverged THEN second
                  ELSE Text(<<"open " \o value, KeyOf(value, "s1")>> \o first.out
                              \o <<KeyOf(value, "s2")>> \o second.out \o <<"close">>,
                            second.seen)

\* safeStringify(value): no try/catch around JSON.stringify
safeStringify(h, value) == walk(h, value, {}, MaxWalkDepth)

\* String.prototype.includes on lower-cased key names
includes(s, sub) ==
  \/ sub = "" \/ s = sub
  \/ <<s, sub>> \in {<<"userpassword", "password">>, <<"userpassword", "pass">>}

(***************************************************************************)
(* Level names (core/factory.ts, runtime/node.ts).                         *)
(***************************************************************************)
\* String.prototype.toLowerCase on the strings of the model
toLowerCase(s) ==
  CASE s = "DEBUG" -> "debug"
    [] s = "Info" -> "info"
    [] s = "WARNING" -> "warning"
    [] s = "ERROR" -> "error"
    [] s = "Silent" -> "silent"
    [] s = "VERBOSE" -> "verbose"
    [] s = "TRUE" -> "true"
    [] s = "INFO" -> "info"
    [] s = "WARN" -> "warn"
    [] s = "SILENT" -> "silent"
    [] s = "userPassword" -> "userpassword"
    [] s = "PASS" -> "pass"
    [] OTHER -> s

\* switch (level.toLowerCase()) { ... default: INFO }
stringToLogLevel(s) ==
  CASE toLowerCase(s) = "debug" -> DEBUG
    [] toLowerCase(s) = "info" -> INFO
    [] toLowerCase(s) \in {"warn", "warning"} -> WARN
    [] toLowerCase(s) = "error" -> ERROR
    [] toLowerCase(s) \in {"silent", "none"} -> SILENT
    [] OTHER -> INFO

logLevelToStringNone(level) ==
  CASE level = DEBUG -> "debug"
    [] level = INFO -> "info"
    [] level = WARN -> "warn"
    [] level = ERROR -> "error"
    [] level = SILENT -> "none"
    [] OTHER -> "info"
logLevelToString(level) ==
  CASE level = DEBUG -> "debug"
    [] level = INFO -> "info"
    [] level = WARN -> "warn"
    [] level = ERROR -> "error"
    [] level = SILENT -> "silent"
    [] OTHER -> "info"

getWinstonLevel(level) ==
  CASE level = DEBUG -> "debug"
    [] level = INFO -> "info"
    [] level = WARN -> "warn"
    [] level = ERROR -> "error"
    [] OTHER -> "info"

(***************************************************************************)
(* formatLogEntry(entry, 'json'): the rendered document, as the set of its *)
(* keys, its level text and what stands under metadata ("absent": no such  *)
(* key, "object": the entry's map, or a string).                           *)
(***************************************************************************)
\* LogLevel[level]: the reverse mapping of the enum
EnumName(level) ==
  CASE level = DEBUG -> "DEBUG" [] level = INFO -> "INFO" [] level = WARN -> "WARN"
    [] level = ERROR -> "ERROR" [] OTHER -> "SILENT"

\* what safeStringify's replacer returns for a property of the document:
\* the string '[undefined]' for an undefined value
replaceProperty(value) == IF value = "undefined" THEN "[undefined]" ELSE value

\* utils/formatting.ts: metadata is assigned only if entry.metadata !== undefined
formatLogEntry(entry) ==
  [keys |-> {"timestamp", "level", "message", "runtime"}
              \cup (IF entry.hasMetadata THEN {"metadata"} ELSE {}),
   level |-> toLowerCase(EnumName(entry.level)),
   metadata |-> IF entry.hasMetadata THEN replaceProperty("object") ELSE "absent"]

\* core/logger.ts: the object literal always has the property metadata
coreFormatLogEntry(entry) ==
  [keys |-> {"timestamp", "level", "message", "metadata", "runtime"},
   level |-> toLowerCase(EnumName(entry.level)),
   metadata |-> replaceProperty(IF entry.hasMetadata THEN "object" ELSE "undefined")]

(***************************************************************************)
(* filterSensitiveData (utils/serialization.ts).                           *)
(***************************************************************************)
Redacted == "[REDACTED]"
DefaultSensitiveKeys == <<"password", "token", "secret", "key", "auth">>

\* sensitiveKeys.some(k => key.toLowerCase().includes(k.toLowerCase()))
shouldFilterExact(key, sensitiveKeys) ==
  \E i \in DOMAIN sensitiveKeys : toLowerCase(key) = toLowerCase(sensitiveKeys[i])
shouldFilter(key, sensitiveKeys) ==
  \E i \in DOMAIN sensitiveKeys : includes(toLowerCase(key), toLowerCase(sensitiveKeys[i]))

\* the token of the entry of node n at slot in a filtered structure
EntryToken(n, slot) == n \o "." \o KeyOf(n, slot)

\* filterSensitiveData(value, sensitiveKeys): the rebuilt structure as a
\* sequence of tokens.  The function keeps no record of the objects it
\* entered; a recursion deeper than the number of objects has entered one
\* twice and goes on until the call stack is exhausted.
RECURSIVE filterSensitiveData(_, _, _, _)
filterSensitiveData(h, value, sensitiveKeys, depth) ==
  IF value \notin Nodes THEN Text(<<value>>, {})
  ELSE IF depth = 0 THEN Failed({}, TRUE, TRUE)
  ELSE LET entry(slot) ==
             IF shouldFilter(KeyOf(value, slot), sensitiveKeys) THEN Text(<<Redacted>>, {})
             ELSE filterSensitiveData(h, h[value][slot], sensitiveKeys, depth - 1)
           first == entry("s1")
           second == entry("s2")
       IN IF first.diverged THEN first
          ELSE IF second.diverged THEN second
          ELSE Text(<<"open " \o value, EntryToken(value, "s1")>> \o first.out
                      \o <<EntryToken(value, "s2")>> \o second.out \o <<"close">>, {})

(***************************************************************************)
(* Factory (core/factory.ts, utils/config.ts).                             *)
(***************************************************************************)
\* A (partial) LoggerConfig.  hasLevel tells whether the object sets level.
\* format, timestamp, colorize and transports are "unset" when the object has
\* no such key and "undefined" when the key is there with the value
\* undefined; transports is otherwise "empty" ([]) or the type of its one
\* transport.  metadata is the map of the object (no map reads as {}).
FormatValues == {"text", "json", "custom"}
BoolValues == {"true", "false"}
TransportLists == {"empty", "console", "file"}
BoolName(b) == IF b THEN "true" ELSE "false"

\* {}: the config that sets nothing
EmptyConfig ==
  [hasLevel |-> FALSE, level |-> INFO, format |-> "unset", timestamp |-> "unset",
   colorize |-> "unset", metadata |-> EmptyMeta, transports |-> "unset"]

getDefaultConfig(g) ==
  [hasLevel |-> TRUE, level |-> INFO, format |-> "text", timestamp |-> "true",
   colorize |-> BoolName(detectRuntime(g).capabilities.colorSupport),
   metadata |-> EmptyMeta, transports |-> "console"]

\* one field of { ...a, ...b }: b's value when b has the key, undefined included
Over(a, b) == IF b # "unset" THEN b ELSE a

\* LoggerFactory.mergeConfig: { ...defaultConfig, ...userConfig, metadata: {...} }
mergeConfig(g, userConfig) ==
  LET defaultConfig == getDefaultConfig(g)
  IN [hasLevel |-> defaultConfig.hasLevel \/ userConfig.hasLevel,
      level |-> IF userConfig.hasLevel THEN userConfig.level ELSE defaultConfig.level,
      format |-> Over(defaultConfig.format, userConfig.format),
      timestamp |-> Over(defaultConfig.timestamp, userConfig.timestamp),
      colorize |-> Over(defaultConfig.colorize, userConfig.colorize),
      metadata |-> Spread(defaultConfig.metadata, userConfig.metadata),
      transports |-> Over(defaultConfig.transports, userConfig.transports)]

\* the switch of LoggerFactory.create on runtime.name
\* one step of the reduce in mergeConfigs:
\* { ...merged, ...config, metadata: { ...merged.metadata, ...config.metadata },
\*   transports: config.transports || merged.transports }
\* ([] is truthy, so only a missing or undefined list falls through)
mergeStep(merged, config) ==
  [hasLevel |-> merged.hasLevel \/ config.hasLevel,
   level |-> IF config.hasLevel THEN config.level ELSE merged.level,
   format |-> Over(merged.format, config.format),
   timestamp |-> Over(merged.timestamp, config.timestamp),
   colorize |-> Over(merged.colorize, config.colorize),
   metadata |-> Spread(merged.metadata, config.metadata),
   transports |-> IF config.transports \in {"unset", "undefined"}
                  THEN merged.transports ELSE config.transports]

\* configs.reduce(step, defaultConfig)
RECURSIVE reduce(_, _)
reduce(configs, merged) ==
  IF configs = <<>> THEN merged
  ELSE reduce(Tail(configs), mergeStep(merged, Head(configs)))

mergeConfigs(g, configs) == reduce(configs, getDefaultConfig(g))

\* loadConfigFromEnvironment: the partial config named by LOG_LEVEL,
\* LOG_FORMAT, LOG_TIMESTAMP and LOG_COLOR of process.env e
loadConfigFromEnvironment(e) ==
  IF ~e.hasProcess THEN EmptyConfig
  ELSE [EmptyConfig EXCEPT
          !.hasLevel = e.LOG_LEVEL # "",
          !.level = IF e.LOG_LEVEL # "" THEN stringToLogLevel(e.LOG_LEVEL)
                    ELSE INFO,
          !.format = IF e.LOG_FORMAT \in {"json", "text"} THEN e.LOG_FORMAT ELSE "unset",
          !.timestamp = IF e.LOG_TIMESTAMP # ""
                        THEN BoolName(toLowerCase(e.LOG_TIMESTAMP) = "true") ELSE "unset",
          !.colorize = IF e.LOG_COLOR # ""
                       THEN BoolName(toLowerCase(e.LOG_COLOR) = "true") ELSE "unset"]

\* getEnvironment under the ambient signals g and environment e
getEnvironmentReversed(g, e) ==
  IF e.hasProcess
  THEN IF e.ENVIRONMENT # "" THEN e.ENVIRONMENT
       ELSE IF e.NEXT_PUBLIC_APP_ENV # "" THEN e.NEXT_PUBLIC_APP_ENV
       ELSE IF e.NODE_ENV # "" THEN e.NODE_ENV
       ELSE "development"
  ELSE IF "window" \in g
  THEN IF e.ENV_GLOBAL # "" THEN e.ENV_GLOBAL ELSE "development"
  ELSE "development"
getEnvironment(g, e) ==
  IF e.hasProcess
  THEN IF e.NODE_ENV # "" THEN e.NODE_ENV
       ELSE IF e.NEXT_PUBLIC_APP_ENV # "" THEN e.NEXT_PUBLIC_APP_ENV
       ELSE IF e.ENVIRONMENT # "" THEN e.ENVIRONMENT
       ELSE "development"
  ELSE IF "window" \in g
  THEN IF e.ENV_GLOBAL # "" THEN e.ENV_GLOBAL ELSE "development"
  ELSE "development"

getLogLevelForEnvironment(env) ==
  CASE env = "production" -> ERROR
    [] env \in {"staging", "test"} -> WARN
    [] env \in {"development", "dev"} -> DEBUG
    [] OTHER -> INFO

\* the config createLoggerForEnvironment hands to createLogger
EnvironmentConfig(g, e) ==
  LET env == getEnvironment(g, e)
  IN [EmptyConfig EXCEPT
        !.hasLevel = TRUE,
        !.level = getLogLevelForEnvironment(env),
        !.colorize = BoolName(env # "production"),
        !.timestamp = "true",
        !.format = IF env = "production" THEN "json" ELSE "text"]

\* Config files.  A file system maps each path to "missing", "invalid" (it
\* exists and does not parse) or "valid"; the config of a valid file is
\* named after its path and {} is "{}".
possiblePaths == <<"logan.config.json", "logan.config.js", ".loganrc", "package.json">>
FileStatus == {"missing", "invalid", "valid"}
NoFiles == [i \in DOMAIN possiblePaths |-> "missing"]
Returned(value) == [threw |-> FALSE, value |-> value]

\* loadNodeConfig (loadBunConfig calls it, loadDenoConfig has the same
\* structure): a .json or .js path is read and parsed inside a try block
\* whose catch is empty; every other path, and every failure, ends in
\* `return {}`
loadNodeConfig(files, i) ==
  IF possiblePaths[i] \in {"logan.config.json", "logan.config.js", "package.json"}
       /\ files[i] = "valid"
  THEN Returned(possiblePaths[i])
  ELSE Returned("{}")

\* the loop of loadConfigFromFile from path i on: return what the loader
\* returned, go on to the next path only when it raised
RECURSIVE tryPaths(_, _)
tryPaths(files, i) ==
  IF i > Len(possiblePaths) THEN "{}"
  ELSE IF ~loadNodeConfig(files, i).threw THEN loadNodeConfig(files, i).value
  ELSE tryPaths(files, i + 1)

\* loadConfigFromFile() without an explicit path, under the ambient signals g
loadConfigFromFile(g, files) ==
  IF ~detectRuntime(g).capabilities.fileSystem THEN "{}" ELSE tryPaths(files, 1)

AdapterForByCapability(runtime) ==
  IF getRuntimeCapabilities(runtime).fileSystem THEN "NodeLogger" ELSE "BrowserLogger"
AdapterFor(runtime) ==
  CASE runtime = "node" -> "NodeLogger"
    [] runtime = "deno" -> "BrowserLogger"
    [] runtime = "bun" -> "NodeLogger"
    [] runtime \in {"browser", "webworker"} -> "BrowserLogger"
    [] OTHER -> "BrowserLogger"

(***************************************************************************)
(* State.                                                                  *)
(***************************************************************************)
VARIABLES
  globals,        \* the ambient runtime signals (globalThis.Deno, window, ...)
  procEnv,        \* process.env and the __ENV__ global ("" = unset)
  console,        \* status of each console channel: "ok", "missing", "raises"
  backendRaises,  \* whether winston.log raises when it is called
  loggers,        \* the logger instances, in creation order
  heap,           \* the object graph of the values handed to the serializers
  last            \* what the most recent operation did and produced

vars == <<globals, procEnv, console, backendRaises, loggers, heap, last>>

Channels == {"debug", "info", "warn", "error", "log"}
ChannelStatus == {"ok", "missing", "raises"}
HealthyConsole == [c \in Channels |-> "ok"]

NoEntry == [defined |-> FALSE, level |-> DEBUG, hasMetadata |-> FALSE, metadata |-> EmptyMeta]

NoOp ==
  [op |-> "none", logger |-> 0, parent |-> 0, level |-> DEBUG, threshold |-> DEBUG,
   fn |-> FALSE, callMeta |-> EmptyMeta, invoked |-> 0, hook |-> 0, entry |-> NoEntry,
   console |-> <<>>, backend |-> <<>>, threw |-> FALSE, shape |-> "none",
   runtime |-> "unknown", cls |-> "none",
   configs |-> <<>>, result |-> EmptyConfig, text |-> "",
   root |-> "", out |-> <<>>, diverged |-> FALSE, sensitiveKeys |-> <<>>,
   json |-> [keys |-> {}, level |-> "", metadata |-> "absent"],
   files |-> NoFiles]

Ids == DOMAIN loggers

(***************************************************************************)
(* BaseLogger (core/logger.ts).                                            *)
(***************************************************************************)
\* constructor: this.level = config.level ?? LogLevel.INFO
ConstructLevel(config) == IF config.hasLevel THEN config.level ELSE INFO

BaseShouldLogStrict(lg, level) == level > lg.level
BaseShouldLog(lg, level) == level >= lg.level

(***************************************************************************)
(* BrowserLogger (runtime/browser.ts).                                     *)
(***************************************************************************)
\* NODE_ENV || NEXT_PUBLIC_APP_ENV || 'development'
BrowserEnv ==
  IF procEnv.NODE_ENV # "" THEN procEnv.NODE_ENV
  ELSE IF procEnv.NEXT_PUBLIC_APP_ENV # "" THEN procEnv.NEXT_PUBLIC_APP_ENV
  ELSE "development"

shouldLogInProductionDebugOnly(lg) == BrowserEnv # "production" \/ lg.level <= DEBUG
shouldLogInProduction(lg) == BrowserEnv # "production" \/ lg.level <= ERROR

BrowserShouldLog(lg, level) ==
  IF ~shouldLogInProduction(lg) /\ level < ERROR THEN FALSE ELSE BaseShouldLog(lg, level)

\* BrowserLogger and the two classes that extend it without overriding
\* shouldLog, writeLog or createChild
BrowserClasses == {"BrowserLogger", "ConsoleGroupLogger", "PerformanceLogger"}
ConcreteClasses == BrowserClasses \cup {"NodeLogger"}

\* the shouldLog the instance dispatches to
shouldLog(lg, level) ==
  IF lg.cls \in BrowserClasses THEN BrowserShouldLog(lg, level) ELSE BaseShouldLog(lg, level)

(***************************************************************************)
(* Sinks.  A write hook yields the console channels it wrote, the records  *)
(* it handed to the backend, and whether it raised.                        *)
(***************************************************************************)
Wrote(chs, recs) == [console |-> chs, backend |-> recs, threw |-> FALSE]
Raised == [console |-> <<>>, backend |-> <<>>, threw |-> TRUE]

\* console[ch](...): a TypeError when the channel is missing, its own error when it raises
ConsoleCall(ch) == IF console[ch] = "ok" THEN Wrote(<<ch>>, <<>>) ELSE Raised

\* safeStringify has no try/catch: a failing property read or toJSON escapes it
safeStringifyRaises(m) == \E k \in Keys : m[k] = Thrower

BrowserWriteLog(lg, entry) ==
  IF entry.hasMetadata /\ safeStringifyRaises(entry.metadata) THEN Raised
  ELSE CASE entry.level = DEBUG ->
              IF console["debug"] # "missing" THEN ConsoleCall("debug") ELSE ConsoleCall("log")
         [] entry.level = INFO -> ConsoleCall("info")
         [] entry.level = WARN -> ConsoleCall("warn")
         [] entry.level = ERROR -> ConsoleCall("error")
         [] OTHER -> Wrote(<<>>, <<>>)

(***************************************************************************)
(* NodeLogger (runtime/node.ts).                                           *)
(***************************************************************************)
writeToConsole(entry) ==
  IF entry.hasMetadata /\ safeStringifyRaises(entry.metadata) THEN Raised
  ELSE CASE entry.level = DEBUG -> ConsoleCall("debug")
         [] entry.level = INFO -> ConsoleCall("info")
         [] entry.level = WARN -> ConsoleCall("warn")
         [] entry.level = ERROR -> ConsoleCall("error")
         [] OTHER -> Wrote(<<>>, <<>>)

\* this.winston.log({ level: getWinstonLevel(entry.level), ... })
WinstonLog(entry) ==
  IF backendRaises THEN Raised ELSE Wrote(<<>>, <<getWinstonLevel(entry.level)>>)

NodeWriteLogDropPending(lg, entry) ==
  IF lg.winston = "loaded" THEN WinstonLog(entry)
  ELSE IF lg.winston = "pending" THEN Wrote(<<>>, <<>>)
  ELSE writeToConsole(entry)
NodeWriteLog(lg, entry) ==
  IF lg.winston = "loaded" THEN WinstonLog(entry) ELSE writeToConsole(entry)

writeLog(lg, entry) ==
  IF lg.cls \in BrowserClasses THEN BrowserWriteLog(lg, entry) ELSE NodeWriteLog(lg, entry)

(***************************************************************************)
(* The shape of what a sink emits: "text" for a formatted line, "json" for *)
(* a JSON document.                                                        *)
(***************************************************************************)
\* BrowserLogger.formatMessage: `[${timestamp}] ${level}: ${entry.message}`
formatMessage(lg, entry) == "text"

\* the message NodeLogger.writeToConsole builds: the same line
writeToConsoleMessage(lg, entry) == "text"

\* the format of winston's Console transport: logFormat (json) when NODE_ENV
\* is production, consoleFormat (printf line) otherwise
WinstonConsoleFormat(lg) == IF procEnv.NODE_ENV = "production" THEN "json" ELSE "text"

\* the shape of the output of a call with outcome r on instance lg
EmittedShape(lg, r) ==
  IF r.console # <<>>
  THEN IF lg.cls \in BrowserClasses THEN formatMessage(lg, r.entry)
       ELSE writeToConsoleMessage(lg, r.entry)
  ELSE IF r.backend # <<>> THEN WinstonConsoleFormat(lg)
  ELSE "none"

(***************************************************************************)
(* BaseLogger.log                                                          *)
(***************************************************************************)
\* { ...this.childMetadata, ...metadata } and the entry built from it
BuildEntry(lg, level, metadata) ==
  LET combinedMetadata == Spread(lg.childMetadata, metadata)
  IN [defined |-> TRUE, level |-> level,
      hasMetadata |-> Cardinality(ObjectKeys(combinedMetadata)) > 0,
      metadata |-> IF Cardinality(ObjectKeys(combinedMetadata)) > 0
                   THEN combinedMetadata ELSE EmptyMeta]

\* the outcome of one call log(level, message, metadata) on instance lg;
\* fn tells whether message is a function, invoked counts its invocations,
\* hook counts the calls of the write hook
logEager(lg, level, fn, metadata) ==
  IF ~shouldLog(lg, level)
  THEN [invoked |-> IF fn THEN 1 ELSE 0, hook |-> 0, entry |-> NoEntry,
        console |-> <<>>, backend |-> <<>>, threw |-> FALSE]
  ELSE LET entry == BuildEntry(lg, level, metadata)
           w == writeLog(lg, entry)
       IN [invoked |-> IF fn THEN 1 ELSE 0, hook |-> 1, entry |-> entry,
           console |-> w.console, backend |-> w.backend, threw |-> w.threw]
log(lg, level, fn, metadata) ==
  IF ~shouldLog(lg, level)
  THEN [invoked |-> 0, hook |-> 0, entry |-> NoEntry,
        console |-> <<>>, backend |-> <<>>, threw |-> FALSE]
  ELSE LET entry == BuildEntry(lg, level, metadata)
           w == writeLog(lg, entry)
       IN [invoked |-> IF fn THEN 1 ELSE 0, hook |-> 1, entry |-> entry,
           console |-> w.console, backend |-> w.backend, threw |-> w.threw]

(***************************************************************************)
(* Construction, setLevel, child.                                          *)
(***************************************************************************)
\* new cls(config): the base constructor, then NodeLogger starts its import
\* of winston, which settles later.  given is the list of maps passed to
\* child() on the way from the root (history, not read by the program).
NewLogger(cls, config, parent, given) ==
  [cls |-> cls, config |-> config, level |-> ConstructLevel(config),
   childMetadata |-> EmptyMeta,
   winston |-> IF cls = "NodeLogger" THEN "pending" ELSE "none",
   winstonLevel |-> "",
   groupStack |-> <<>>,
   parent |-> parent, given |-> given]

\* LoggerFactory.create(config) under the ambient signals g
create(g, userConfig) ==
  NewLogger(AdapterFor(detectRuntime(g).name), mergeConfig(g, userConfig), 0, <<>>)

\* setLevel on one instance (NodeLogger also assigns winston.level when loaded)
setLevel(lg, level) ==
  IF lg.cls = "NodeLogger" /\ lg.winston = "loaded"
  THEN [lg EXCEPT !.level = level, !.winstonLevel = getWinstonLevel(level)]
  ELSE [lg EXCEPT !.level = level]

\* the heap after instance l ran setLevel(level)
SetLevelShared(ls, l, level) == [i \in DOMAIN ls |-> setLevel(ls[i], level)]
SetLevelOn(ls, l, level) == [ls EXCEPT ![l] = setLevel(ls[l], level)]

\* the class createChild() instantiates: NodeLogger.createChild builds a
\* NodeLogger, BrowserLogger.createChild (inherited by its subclasses) a
\* BrowserLogger
createChild(cls) == IF cls = "NodeLogger" THEN "NodeLogger" ELSE "BrowserLogger"

\* p.child(metadata): createChild() builds from this.config, then the merge
child(ls, p, metadata) ==
  [NewLogger(createChild(ls[p].cls), ls[p].config, p, Append(ls[p].given, metadata))
     EXCEPT !.childMetadata = Spread(ls[p].childMetadata, metadata)]

\* ConsoleGroupLogger.group / groupCollapsed: this.groupStack.push(label)
group(lg, label) == [lg EXCEPT !.groupStack = Append(@, label)]

\* ConsoleGroupLogger.groupEnd: this.groupStack.pop() (no effect on [])
groupEndShift(lg) ==
  [lg EXCEPT !.groupStack = IF @ = <<>> THEN <<>> ELSE Tail(@)]
groupEnd(lg) ==
  [lg EXCEPT !.groupStack = IF @ = <<>> THEN <<>> ELSE SubSeq(@, 1, Len(@) - 1)]

\* initializeWinston after `await import('winston')` resolved
winstonLoaded(lg) ==
  [lg EXCEPT !.winston = "loaded", !.winstonLevel = getWinstonLevel(lg.level)]

(***************************************************************************)
(* Actions.                                                                *)
(***************************************************************************)
\* createLogger(userConfig); the model follows one root logger and its children
Create(userConfig) ==
  /\ Len(loggers) = 0
  /\ loggers' = <<create(globals, userConfig)>>
  /\ last' = [NoOp EXCEPT !.op = "create", !.logger = 1,
                          !.runtime = detectRuntime(globals).name,
                          !.cls = create(globals, userConfig).cls]
  /\ UNCHANGED <<globals, heap, procEnv, console, backendRaises>>

\* createLoggerForEnvironment()
CreateForEnvironment ==
  /\ Len(loggers) = 0
  /\ loggers' = <<create(globals, EnvironmentConfig(globals, procEnv))>>
  /\ last' = [NoOp EXCEPT !.op = "createForEnvironment", !.logger = 1,
                          !.runtime = detectRuntime(globals).name,
                          !.cls = create(globals, EnvironmentConfig(globals, procEnv)).cls]
  /\ UNCHANGED <<globals, heap, procEnv, console, backendRaises>>

\* new cls(config): a concrete class constructed directly
New(cls, config) ==
  /\ Len(loggers) = 0
  /\ loggers' = <<NewLogger(cls, config, 0, <<>>)>>
  /\ last' = [NoOp EXCEPT !.op = "new", !.logger = 1, !.cls = cls]
  /\ UNCHANGED <<globals, heap, procEnv, console, backendRaises>>

\* l.setLevel(stringToLogLevel(s))
SetLevelByName(l, s) ==
  /\ l \in Ids
  /\ loggers' = SetLevelOn(loggers, l, stringToLogLevel(s))
  /\ last' = [NoOp EXCEPT !.op = "setLevelByName", !.logger = l, !.text = s,
                          !.level = stringToLogLevel(s)]
  /\ UNCHANGED <<globals, heap, procEnv, console, backendRaises>>

\* logLevelToString(l.getLevel())
LevelName(l) ==
  /\ l \in Ids
  /\ last' = [NoOp EXCEPT !.op = "levelName", !.logger = l, !.level = loggers[l].level,
                          !.text = logLevelToString(loggers[l].level)]
  /\ UNCHANGED <<globals, heap, procEnv, console, backendRaises, loggers>>

\* l.group(label) or l.groupCollapsed(label) on a ConsoleGroupLogger
Group(l, label, collapsed) ==
  /\ l \in Ids
  /\ loggers[l].cls = "ConsoleGroupLogger"
  /\ Len(loggers[l].groupStack) < MaxDepth
  /\ loggers' = [loggers EXCEPT ![l] = group(@, label)]
  /\ last' = [NoOp EXCEPT !.op = IF collapsed THEN "groupCollapsed" ELSE "group",
                          !.logger = l, !.text = label]
  /\ UNCHANGED <<globals, heap, procEnv, console, backendRaises>>

\* l.groupEnd()
GroupEnd(l) ==
  /\ l \in Ids
  /\ loggers[l].cls = "ConsoleGroupLogger"
  /\ loggers' = [loggers EXCEPT ![l] = groupEnd(@)]
  /\ last' = [NoOp EXCEPT !.op = "groupEnd", !.logger = l]
  /\ UNCHANGED <<globals, heap, procEnv, console, backendRaises>>

\* safeStringify(root) on a value of the object graph
Stringify(root) ==
  /\ LET r == safeStringify(heap, root)
     IN last' = [NoOp EXCEPT !.op = "safeStringify", !.root = root, !.out = r.out,
                             !.threw = r.threw, !.diverged = r.diverged]
  /\ UNCHANGED <<globals, heap, procEnv, console, backendRaises, loggers>>

\* filterSensitiveData(root, sensitiveKeys) on a value of the object graph
Filter(root, sensitiveKeys) ==
  /\ LET r == filterSensitiveData(heap, root, sensitiveKeys, MaxWalkDepth)
     IN last' = [NoOp EXCEPT !.op = "filterSensitiveData", !.root = root,
                             !.sensitiveKeys = sensitiveKeys, !.out = r.out,
                             !.threw = r.threw, !.diverged = r.diverged]
  /\ UNCHANGED <<globals, heap, procEnv, console, backendRaises, loggers>>

\* formatLogEntry(entry, 'json') of utils/formatting.ts (core = FALSE) or of
\* core/logger.ts (core = TRUE)
FormatLogEntry(entry, core) ==
  /\ last' = [NoOp EXCEPT !.op = "formatLogEntry", !.entry = entry,
                          !.text = IF core THEN "core/logger" ELSE "utils/formatting",
                          !.json = IF core THEN coreFormatLogEntry(entry)
                                   ELSE formatLogEntry(entry)]
  /\ UNCHANGED <<globals, heap, procEnv, console, backendRaises, loggers>>

\* loadConfigFromFile() on a file system
LoadConfigFromFile(files) ==
  /\ last' = [NoOp EXCEPT !.op = "loadConfigFromFile", !.files = files,
                          !.runtime = detectRuntime(globals).name,
                          !.text = loadConfigFromFile(globals, files)]
  /\ UNCHANGED <<globals, heap, procEnv, console, backendRaises, loggers>>

\* mergeConfigs(...configs): a pure function of its arguments and the host
MergeConfigs(configs) ==
  /\ last' = [NoOp EXCEPT !.op = "mergeConfigs", !.configs = configs,
                          !.result = mergeConfigs(globals, configs)]
  /\ UNCHANGED <<globals, heap, procEnv, console, backendRaises, loggers>>

SetLevel(l, level) ==
  /\ l \in Ids
  /\ loggers' = SetLevelOn(loggers, l, level)
  /\ last' = [NoOp EXCEPT !.op = "setLevel", !.logger = l, !.level = level]
  /\ UNCHANGED <<globals, heap, procEnv, console, backendRaises>>

Child(p, metadata, max) ==
  /\ p \in Ids
  /\ Len(loggers) < max
  /\ loggers' = Append(loggers, child(loggers, p, metadata))
  /\ last' = [NoOp EXCEPT !.op = "child", !.logger = Len(loggers) + 1, !.parent = p,
                          !.callMeta = metadata]
  /\ UNCHANGED <<globals, heap, procEnv, console, backendRaises>>

Log(l, level, fn, metadata) ==
  /\ l \in Ids
  /\ LET r == log(loggers[l], level, fn, metadata)
     IN last' = [NoOp EXCEPT !.op = "log", !.logger = l, !.level = level,
                             !.threshold = loggers[l].level, !.fn = fn,
                             !.callMeta = metadata, !.invoked = r.invoked,
                             !.hook = r.hook, !.entry = r.entry,
                             !.console = r.console, !.backend = r.backend,
                             !.threw = r.threw,
                             !.shape = EmittedShape(loggers[l], r)]
  /\ UNCHANGED <<globals, heap, procEnv, console, backendRaises, loggers>>

\* the pending import of winston resolves: this.winston = createWinstonLogger(winston)
LoadSucceeds(l) ==
  /\ l \in Ids
  /\ loggers[l].winston = "pending"
  /\ loggers' = [loggers EXCEPT ![l] = winstonLoaded(@)]
  /\ last' = [NoOp EXCEPT !.op = "loaded", !.logger = l]
  /\ UNCHANGED <<globals, heap, procEnv, console, backendRaises>>

\* the pending import rejects: the catch block warns on the console
LoadFails(l) ==
  /\ l \in Ids
  /\ loggers[l].winston = "pending"
  /\ loggers' = [loggers EXCEPT ![l].winston = "failed"]
  /\ last' = [NoOp EXCEPT !.op = "loadFailed", !.logger = l,
                          !.console = ConsoleCall("warn").console]
  /\ UNCHANGED <<globals, heap, procEnv, console, backendRaises>>

\* the host removes or breaks a console channel
BreakChannel(ch, st) ==
  /\ console[ch] = "ok"
  /\ console' = [console EXCEPT ![ch] = st]
  /\ last' = NoOp
  /\ UNCHANGED <<globals, heap, procEnv, backendRaises, loggers>>

\* the backend starts to fail
BackendBreaks ==
  /\ ~backendRaises
  /\ backendRaises' = TRUE
  /\ last' = NoOp
  /\ UNCHANGED <<globals, heap, procEnv, console, loggers>>

(***************************************************************************)
(* Specifications.                                                         *)
(***************************************************************************)
NodeGlobals == {"node"}
BrowserGlobals == {"window", "document"}
\* process.env (hasProcess: whether process and process.env exist at all; ""
\* is an unset variable) and the build-time global __ENV__
NoEnv ==
  [hasProcess |-> TRUE, NODE_ENV |-> "", NEXT_PUBLIC_APP_ENV |-> "", ENVIRONMENT |-> "",
   LOG_LEVEL |-> "", LOG_FORMAT |-> "", LOG_TIMESTAMP |-> "", LOG_COLOR |-> "",
   ENV_GLOBAL |-> ""]
ProductionEnv == [NoEnv EXCEPT !.NODE_ENV = "production"]
ConfigWithLevel(level) == [EmptyConfig EXCEPT !.hasLevel = TRUE, !.level = level]
UserConfigs == {EmptyConfig} \cup {ConfigWithLevel(level) : level \in LogLevels}

InitOver(hosts) ==
  /\ \E h \in hosts : globals = h[1] /\ procEnv = h[2]
  /\ console = HealthyConsole
  /\ backendRaises = FALSE
  /\ loggers = <<>>
  /\ heap = PlainHeap
  /\ last = NoOp

Hosts == {<<NodeGlobals, NoEnv>>, <<BrowserGlobals, NoEnv>>, <<BrowserGlobals, ProductionEnv>>}

\* Dispatch: one logger under level changes, calls (string and function
\* messages, with and without metadata) and the settling of the backend
\* load, on a node host and on a browser host.
Init == InitOver(Hosts)

Next ==
  \/ \E c \in UserConfigs : Create(c)
  \/ \E level \in LogLevels : SetLevel(1, level)
  \/ \E level \in LogLevels, fn \in BOOLEAN, m \in SmallMetas : Log(1, level, fn, m)
  \/ LoadSucceeds(1)
  \/ LoadFails(1)

Spec == Init /\ [][Next]_vars

\* Tree: a root and its descendants, each with its own level and its own
\* backend load.
InitTree == InitOver(Hosts)

NextTree ==
  \/ \E c \in UserConfigs : Create(c)
  \/ \E l \in 1..MaxTree, level \in LogLevels : SetLevel(l, level)
  \/ \E p \in 1..MaxTree : Child(p, EmptyMeta, MaxTree)
  \/ \E l \in 1..MaxTree : LoadSucceeds(l)
  \/ \E l \in 1..MaxTree : LoadFails(l)

SpecTree == InitTree /\ [][NextTree]_vars

\* Metadata: a chain root.child(M1)...child(Mn) with every map over Keys and
\* Vals, and calls on its last child with every call-site map, below and at
\* the threshold.
InitMeta == InitOver({<<NodeGlobals, NoEnv>>, <<BrowserGlobals, NoEnv>>})

NextMeta ==
  \/ Create(EmptyConfig)
  \/ \E m \in MetaOver(Vals) : Child(Len(loggers), m, MaxChain)
  \/ \E level \in {DEBUG, INFO}, m \in MetaOver(Vals) :
        Log(Len(loggers), level, FALSE, m)

SpecMeta == InitMeta /\ [][NextMeta]_vars

\* Factory: create under every combination of the ambient signals.
InitFactory == InitOver({<<g, NoEnv>> : g \in SUBSET Signals})

NextFactory == \E c \in UserConfigs : Create(c)

SpecFactory == InitFactory /\ [][NextFactory]_vars

\* Fault: one logger on a host whose console channels go missing or start to
\* raise, whose backend starts to raise, and with metadata that cannot be
\* serialized.
FaultMetas == {EmptyMeta,
               [k \in Keys |-> IF k = "a" THEN "1" ELSE Absent],
               [k \in Keys |-> IF k = "a" THEN Thrower ELSE Absent]}

InitFault == InitOver({<<NodeGlobals, NoEnv>>, <<BrowserGlobals, NoEnv>>})

NextFault ==
  \/ Create(ConfigWithLevel(DEBUG))
  \/ \E level \in LogLevels, m \in FaultMetas : Log(1, level, FALSE, m)
  \/ LoadSucceeds(1)
  \/ LoadFails(1)
  \/ \E ch \in Channels, st \in {"missing", "raises"} : BreakChannel(ch, st)
  \/ BackendBreaks

SpecFault == InitFault /\ [][NextFault]_vars

\* Config: create with every format setting (absent, undefined, text, json)
\* and with and without config.metadata, then calls on the logger and on
\* its children, before and after the backend load.
ConfigInputs ==
  {[EmptyConfig EXCEPT !.format = f, !.metadata = m] :
     f \in {"unset", "undefined", "text", "json"}, m \in SmallMetas}

InitConfig == InitOver(Hosts)

NextConfig ==
  \/ \E c \in ConfigInputs : Create(c)
  \/ \E m \in SmallMetas : Child(1, m, MaxTree)
  \/ \E l \in 1..MaxTree, level \in {INFO, ERROR}, m \in SmallMetas : Log(l, level, FALSE, m)
  \/ \E l \in 1..MaxTree : LoadSucceeds(l)

SpecConfig == InitConfig /\ [][NextConfig]_vars

\* Merge: createLogger and mergeConfigs over partial configs that set one
\* field each (a level, a format, an explicitly undefined format, a colorize
\* flag, metadata maps, an empty and a non-empty transports list).  create
\* is applied to the config with the undefined format and to one with a level.
MergeInputs ==
  {EmptyConfig, ConfigWithLevel(ERROR),
   [EmptyConfig EXCEPT !.format = "json"],
   [EmptyConfig EXCEPT !.format = "undefined"],
   [EmptyConfig EXCEPT !.colorize = "false"],
   [EmptyConfig EXCEPT !.metadata = [k \in Keys |-> IF k = "a" THEN "1" ELSE Absent]],
   [EmptyConfig EXCEPT !.metadata = [k \in Keys |-> IF k = "a" THEN "2" ELSE "1"]],
   [EmptyConfig EXCEPT !.transports = "empty"],
   [EmptyConfig EXCEPT !.transports = "file"]}

SourceLists == UNION {[1..n -> MergeInputs] : n \in 0..MaxSources}

InitMerge == InitOver({<<NodeGlobals, NoEnv>>, <<{"importScripts"}, NoEnv>>})

NextMerge ==
  \/ \E c \in {[EmptyConfig EXCEPT !.format = "undefined"], ConfigWithLevel(ERROR)} : Create(c)
  \/ \E configs \in SourceLists : MergeConfigs(configs)

SpecMerge == InitMerge /\ [][NextMerge]_vars

\* Environment: createLogger and createLoggerForEnvironment on hosts whose
\* environment names the deployment (NODE_ENV, NEXT_PUBLIC_APP_ENV,
\* ENVIRONMENT, or the __ENV__ global of a host without process) or sets the
\* LOG_* variables.
NamedEnvs ==
  {[NoEnv EXCEPT !.NODE_ENV = n, !.NEXT_PUBLIC_APP_ENV = p, !.ENVIRONMENT = v] :
     n \in {"", "production", "staging", "qa"}, p \in {"", "test", "dev"},
     v \in {"", "development", "production"}}

LogEnvs ==
  {[NoEnv EXCEPT !.LOG_LEVEL = l, !.LOG_FORMAT = f, !.LOG_TIMESTAMP = t, !.LOG_COLOR = c] :
     l \in {"", "debug", "ERROR"}, f \in {"", "json", "xml"},
     t \in {"", "false"}, c \in {"", "TRUE"}}

\* a host without process: only the __ENV__ global can name the deployment
GlobalEnvs ==
  {[NoEnv EXCEPT !.hasProcess = FALSE, !.ENV_GLOBAL = n] : n \in {"", "production", "staging"}}

EnvHosts ==
  {<<g, e>> : g \in {NodeGlobals, BrowserGlobals}, e \in NamedEnvs \cup LogEnvs}
    \cup {<<g, e>> : g \in {BrowserGlobals, {"importScripts"}}, e \in GlobalEnvs}

InitEnv == InitOver(EnvHosts)

NextEnv ==
  \/ \E c \in {EmptyConfig, ConfigWithLevel(WARN), [EmptyConfig EXCEPT !.format = "text"]} :
        Create(c)
  \/ CreateForEnvironment

SpecEnv == InitEnv /\ [][NextEnv]_vars

\* Level names: a logger whose level is set from a name (canonical names,
\* aliases, other letter cases, unknown strings) and read back as a name.
CanonicalNames == {"debug", "info", "warn", "error", "silent"}
RecognizedNames == CanonicalNames \cup {"warning", "none"}
LevelStrings ==
  RecognizedNames \cup {"DEBUG", "Info", "WARNING", "ERROR", "Silent",
                        "VERBOSE", "trace", "", " debug", "3"}

InitLevel == InitOver(Hosts)

NextLevel ==
  \/ \E c \in UserConfigs : Create(c)
  \/ \E s \in LevelStrings : SetLevelByName(1, s)
  \/ LevelName(1)
  \/ LoadSucceeds(1)

SpecLevel == InitLevel /\ [][NextLevel]_vars

\* Groups: one ConsoleGroupLogger under group, groupCollapsed and groupEnd.
GroupLabels == {"outer", "inner"}

InitGroup == InitOver(Hosts)

NextGroup ==
  \/ \E c \in UserConfigs : New("ConsoleGroupLogger", c)
  \/ \E label \in GroupLabels, collapsed \in BOOLEAN : Group(1, label, collapsed)
  \/ GroupEnd(1)

SpecGroup == InitGroup /\ [][NextGroup]_vars

\* Serialize: safeStringify on every value of every object graph over Nodes
\* whose entries are primitives, raising values or references (cycles,
\* self-references and shared nodes included).
InitHeap(values) ==
  /\ globals = NodeGlobals /\ procEnv = NoEnv
  /\ console = HealthyConsole
  /\ backendRaises = FALSE
  /\ loggers = <<>>
  /\ heap \in [Nodes -> [Slots -> values]]
  /\ last = NoOp

InitSerialize == InitHeap(Values)

NextSerialize == \E root \in Values : Stringify(root)

SpecSerialize == InitSerialize /\ [][NextSerialize]_vars

\* Redact: filterSensitiveData on every value of every object graph over
\* Nodes whose entries are primitives or references, with the default list,
\* an empty list, and lists in another letter case or naming an index.
SensitiveLists == {<<>>, DefaultSensitiveKeys, <<"PASS", "1">>}

InitRedact == InitHeap({Prim} \cup Nodes)

NextRedact ==
  \E root \in {Prim} \cup Nodes, sensitiveKeys \in SensitiveLists : Filter(root, sensitiveKeys)

SpecRedact == InitRedact /\ [][NextRedact]_vars

\* Format: both formatLogEntry functions on entries of every level, without
\* metadata and with every metadata map (the empty object included).
Entries ==
  {[defined |-> TRUE, level |-> level, hasMetadata |-> FALSE, metadata |-> EmptyMeta] :
     level \in LogLevels}
    \cup {[defined |-> TRUE, level |-> level, hasMetadata |-> TRUE, metadata |-> m] :
            level \in LogLevels, m \in MetaOver(Vals)}

InitFormat == InitOver(Hosts)

NextFormat == \E entry \in Entries, core \in BOOLEAN : FormatLogEntry(entry, core)

SpecFormat == InitFormat /\ [][NextFormat]_vars

\* Files: loadConfigFromFile on node, deno, bun and browser hosts, over every
\* file system in which each candidate file is missing, invalid or valid.
InitFiles ==
  InitOver({<<g, NoEnv>> : g \in {NodeGlobals, {"Deno"}, {"Bun", "node"}, BrowserGlobals}})

NextFiles == \E files \in [DOMAIN possiblePaths -> FileStatus] : LoadConfigFromFile(files)

SpecFiles == InitFiles /\ [][NextFiles]_vars

\* Classes: each concrete class constructed directly, and its children.
InitClass == InitOver(Hosts)

NextClass ==
  \/ \E cls \in ConcreteClasses, c \in UserConfigs : New(cls, c)
  \/ \E p \in 1..MaxTree, m \in SmallMetas : Child(p, m, MaxTree)

SpecClass == InitClass /\ [][NextClass]_vars

(***************************************************************************)
(* Properties.                                                             *)
(***************************************************************************)
Emitted == last.op = "log" /\ last.hook = 1
\* the console channel named after a level
ChannelOf(level) ==
  CASE level = DEBUG -> "debug" [] level = INFO -> "info"
    [] level = WARN -> "warn" [] OTHER -> "error"

\* C1: a call to debug/info/warn/error at level L hands exactly one entry to
\* the write hook when L >= the current threshold and none when L < it, on
\* either adapter and after any sequence of setLevel calls.
C1_LevelFilter ==
  (last.op = "log" /\ last.level \in MethodLevels) =>
     /\ last.level >= last.threshold => last.hook = 1 /\ last.entry.defined
     /\ last.level < last.threshold => last.hook = 0 /\ ~last.entry.defined

\* an emitted call on a logger whose threshold was moved off its configured level
C1_Witness ==
  /\ last.op = "log" /\ last.level \in MethodLevels /\ last.hook = 1
  /\ last.threshold # loggers[last.logger].config.level

\* C2: a function message is invoked zero times when the call's level is
\* below the current threshold and exactly once when the call is emitted.
C2_LazyMessage ==
  (last.op = "log" /\ last.fn) =>
     /\ last.level < last.threshold => last.invoked = 0
     /\ last.hook = 1 => last.invoked = 1

\* a filtered call with a function message, after the threshold was raised
C2_Witness ==
  /\ last.op = "log" /\ last.fn /\ last.level < last.threshold /\ last.invoked = 0
  /\ last.threshold # loggers[last.logger].config.level

\* C3: every log call returns normally, whatever fails while the entry is
\* formatted, serialized or written.
C3_NeverThrows == last.op = "log" => ~last.threw

\* C4: the entry of a call on the last child of root.child(M1)...child(Mn)
\* with call-site metadata C carries, for every key, the value of the last
\* of M1, ..., Mn, C that sets the key, and no key that none of them sets.
LastSetting(maps, k) ==
  LET setters == {i \in DOMAIN maps : maps[i][k] # Absent}
  IN IF setters = {} THEN Absent
     ELSE maps[CHOOSE i \in setters : \A j \in setters : j <= i][k]

C4_MetadataMerge ==
  Emitted =>
    LET maps == Append(loggers[last.logger].given, last.callMeta)
    IN /\ \A k \in Keys : last.entry.metadata[k] = LastSetting(maps, k)
       /\ last.entry.hasMetadata <=> \E k \in Keys : LastSetting(maps, k) # Absent

\* M1 = {a:1, b:1}, M2 = {a:2}, C = {b:2}: the entry carries {a:2, b:2}
C4_Witness ==
  /\ Emitted
  /\ Len(loggers[last.logger].given) = 2
  /\ loggers[last.logger].given[1] = [k \in Keys |-> "1"]
  /\ loggers[last.logger].given[2] = [k \in Keys |-> IF k = "a" THEN "2" ELSE Absent]
  /\ last.callMeta = [k \in Keys |-> IF k = "b" THEN "2" ELSE Absent]
  /\ last.entry.metadata = [k \in Keys |-> "2"]

\* C5: right after c = p.child(m), c.getLevel() equals p.getLevel().
C5_ChildCopiesLevel ==
  last.op = "child" => loggers[last.logger].level = loggers[last.parent].level

\* C6: a setLevel on one logger of a child tree changes the level of no
\* other logger of the tree.
C6_LevelsIndependent ==
  [][\A i \in DOMAIN loggers : \A j \in DOMAIN loggers :
       (last'.op = "setLevel" /\ last'.logger = i /\ j # i)
          => loggers'[j].level = loggers[j].level]_vars

\* the parent's level was set after the child was created and the two differ
C6_Witness ==
  /\ last.op = "setLevel" /\ last.logger = 1
  /\ Len(loggers) >= 2 /\ loggers[2].parent = 1
  /\ loggers[2].level # loggers[1].level

C8_BackendLevelInSync ==
  \A l \in Ids :
    loggers[l].winston = "loaded" => stringToLogLevel(loggers[l].winstonLevel) = loggers[l].level

\* C9: while the threshold is SILENT no call, at any level, writes to a
\* console channel or to the backend.
C9_SilentWritesNothing ==
  (last.op = "log" /\ last.threshold = SILENT) => last.console = <<>> /\ last.backend = <<>>

\* C10 as stated: create returns the backend-integrated adapter iff the
\* detected profile has the fileSystem capability.
C10_AdapterByFileSystem ==
  last.op = "create" =>
    (last.cls = "NodeLogger" <=> getRuntimeCapabilities(last.runtime).fileSystem)

\* C10 amended: create returns the backend-integrated adapter iff the
\* detected profile has the fileSystem capability and is not deno; every
\* other profile, deno included, gets the console adapter.
C10_AdapterByFileSystemExceptDeno ==
  last.op = "create" =>
    /\ last.cls \in {"NodeLogger", "BrowserLogger"}
    /\ last.cls = "NodeLogger" <=>
         (getRuntimeCapabilities(last.runtime).fileSystem /\ last.runtime # "deno")

\* create on a deno host returns the console adapter
C10_Witness ==
  last.op = "create" /\ last.runtime = "deno" /\ last.cls = "BrowserLogger"

\* C11: a logger created with format 'json' emits every written entry as a
\* JSON document and one created with format 'text' emits the text line, on
\* every adapter.
C11_FormatDecidesShape ==
  (Emitted /\ last.shape # "none"
     /\ loggers[last.logger].config.format \in {"json", "text"}) =>
     last.shape = loggers[last.logger].config.format

\* C12: with console channels present or absent (none raising) and metadata
\* that serializes, an entry at level L emitted on the console path is
\* written to L's own channel when it is present, otherwise to one other
\* channel that is present, and when no channel is present nothing is
\* written; in every case the call returns normally.
C12_ChannelFallback ==
  (/\ Emitted /\ last.level \in MethodLevels
   /\ loggers[last.logger].winston # "loaded"
   /\ \A ch \in Channels : console[ch] # "raises"
   /\ ~safeStringifyRaises(last.entry.metadata)) =>
     LET present == {ch \in Channels : console[ch] = "ok"}
     IN /\ ~last.threw
        /\ ChannelOf(last.level) \in present => last.console = <<ChannelOf(last.level)>>
        /\ (ChannelOf(last.level) \notin present /\ present # {}) =>
              Len(last.console) = 1 /\ last.console[1] \in present
        /\ present = {} => last.console = <<>>

\* C13: when the loaded backend raises on an entry, the entry is written to
\* the console channel of its level and the call returns normally.
C13_BackendFailureFallsBack ==
  (/\ Emitted /\ last.level \in MethodLevels
   /\ loggers[last.logger].winston = "loaded" /\ backendRaises
   /\ console = HealthyConsole
   /\ ~safeStringifyRaises(last.entry.metadata)) =>
     ~last.threw /\ last.console = <<ChannelOf(last.level)>>

\* C16: mergeConfigs(c1, ..., cn) yields for each scalar field the value of
\* the last source that has it (the default when none has), for metadata
\* the key-wise union where the later source wins, and for transports the
\* list of the last source that provides a non-empty one.
LastIndex(S) == CHOOSE i \in S : \A j \in S : j <= i

LastScalar(configs, f, dflt) ==
  LET setters == {i \in DOMAIN configs : configs[i][f] # "unset"}
  IN IF setters = {} THEN dflt ELSE configs[LastIndex(setters)][f]

C16_MergeBySource ==
  last.op = "mergeConfigs" =>
    LET configs == last.configs
        dflt == getDefaultConfig(globals)
        levels == {i \in DOMAIN configs : configs[i].hasLevel}
        lists == {i \in DOMAIN configs :
                    configs[i].transports \notin {"unset", "undefined", "empty"}}
    IN /\ last.result.level =
            (IF levels = {} THEN dflt.level ELSE configs[LastIndex(levels)].level)
       /\ \A f \in {"format", "timestamp", "colorize"} :
            last.result[f] = LastScalar(configs, f, dflt[f])
       /\ \A k \in Keys :
            last.result.metadata[k] =
              LastSetting([i \in DOMAIN configs |-> configs[i].metadata], k)
       /\ last.result.transports =
            (IF lists = {} THEN dflt.transports
             ELSE configs[LastIndex(lists)].transports)

\* C17: every config that reaches an adapter constructor through create, and
\* every config returned by mergeConfigs, has a defined level, format,
\* timestamp, colorize and metadata.
FullyPopulated(config) ==
  /\ config.hasLevel /\ config.level \in LogLevels
  /\ config.format \in FormatValues
  /\ config.timestamp \in BoolValues
  /\ config.colorize \in BoolValues
  /\ config.metadata \in MetaOver(Vals)

C17_ConfigFullyPopulated ==
  /\ \A l \in Ids : FullyPopulated(loggers[l].config)
  /\ last.op = "mergeConfigs" => FullyPopulated(last.result)

\* C18: when LOG_LEVEL, LOG_FORMAT, LOG_TIMESTAMP or LOG_COLOR is set in the
\* environment at the time of createLogger(config), the returned logger
\* uses the environment's value for that field, whatever config says.
C18_EnvironmentOverridesConfig ==
  last.op = "create" =>
    LET e == loadConfigFromEnvironment(procEnv)
        lg == loggers[last.logger]
    IN /\ e.hasLevel => lg.level = e.level /\ lg.config.level = e.level
       /\ e.format # "unset" => lg.config.format = e.format
       /\ e.timestamp # "unset" => lg.config.timestamp = e.timestamp
       /\ e.colorize # "unset" => lg.config.colorize = e.colorize

\* C19: every entry emitted by a logger created with config.metadata = M, or
\* by one of its children, carries every key of M, with the value of the
\* last of M, the child maps and the call-site map that sets the key.
C19_ConfigMetadataCarried ==
  Emitted =>
    LET M == loggers[last.logger].config.metadata
        maps == <<M>> \o loggers[last.logger].given \o <<last.callMeta>>
    IN \A k \in ObjectKeys(M) : last.entry.metadata[k] = LastSetting(maps, k)

\* C14: child(m) on an instance of any concrete class returns a new, distinct
\* instance of that same class, built from the same config.
C14_ChildSameClass ==
  last.op = "child" =>
    /\ last.logger # last.parent
    /\ loggers[last.logger].cls = loggers[last.parent].cls
    /\ loggers[last.logger].config = loggers[last.parent].config

\* C15: detection returns the name of the first rule that matches in the
\* order deno, bun, browser (window and document), worker (importScripts and
\* no window), node, and 'unknown' when none matches; the capability set of
\* 'unknown' is all false.
DetectionRules ==
  << [name |-> "deno", need |-> {"Deno"}, forbid |-> {}],
     [name |-> "bun", need |-> {"Bun"}, forbid |-> {}],
     [name |-> "browser", need |-> {"window", "document"}, forbid |-> {}],
     [name |-> "webworker", need |-> {"importScripts"}, forbid |-> {"window"}],
     [name |-> "node", need |-> {"node"}, forbid |-> {}] >>

FirstMatch(g) ==
  LET ms == {i \in DOMAIN DetectionRules :
               DetectionRules[i].need \subseteq g /\ DetectionRules[i].forbid \cap g = {}}
  IN IF ms = {} THEN "unknown"
     ELSE DetectionRules[CHOOSE i \in ms : \A j \in ms : i <= j].name

C15_FirstMatchingRule ==
  last.op = "create" =>
    LET d == detectRuntime(globals)
    IN /\ last.runtime = d.name
       /\ d.name = FirstMatch(globals)
       /\ d.name = "unknown" =>
             \A c \in {"fileSystem", "colorSupport", "processInfo", "streams"} :
                ~d.capabilities[c]

\* a host showing the Bun global, window, document and process.versions.node
\* at once is detected as bun
C15_Witness ==
  /\ last.op = "create"
  /\ {"Bun", "window", "document", "node"} \subseteq globals /\ "Deno" \notin globals
  /\ last.runtime = "bun"

\* the level and the production switch the preset gives a deployment name
PresetLevel ==
  [production |-> ERROR, staging |-> WARN, test |-> WARN, development |-> DEBUG,
   dev |-> DEBUG]

PresetHolds(name, lg) ==
  /\ lg.level = (IF name \in DOMAIN PresetLevel THEN PresetLevel[name] ELSE INFO)
  /\ lg.config.format = "json" <=> name = "production"
  /\ lg.config.colorize = "false" <=> name = "production"

\* the first non-empty of the three variables, 'development' when none is set
FirstNonEmpty(e) ==
  LET names == <<e.NODE_ENV, e.NEXT_PUBLIC_APP_ENV, e.ENVIRONMENT>>
      set == {i \in DOMAIN names : names[i] # ""}
  IN IF set = {} THEN "development"
     ELSE names[CHOOSE i \in set : \A j \in set : i <= j]

C30_ProductionGateIsBaseRule ==
  (last.op = "log" /\ loggers[last.logger].cls \in BrowserClasses) =>
     /\ (last.hook = 1) <=> (last.level >= last.threshold)
     /\ shouldLog(loggers[last.logger], last.level)
           <=> BaseShouldLog(loggers[last.logger], last.level)

\* in production with the threshold at SILENT the gate is closed, and the
\* WARN call it rejects is one the threshold rejects too
C30_Witness ==
  /\ last.op = "log" /\ loggers[last.logger].cls \in BrowserClasses
  /\ BrowserEnv = "production" /\ ~shouldLogInProduction(loggers[last.logger])
  /\ last.threshold = SILENT /\ last.level = WARN /\ last.hook = 0

\* C25: stringToLogLevel(logLevelToString(L)) = L for every level L,
\* logLevelToString(stringToLogLevel(s)) = s for every canonical name s, and
\* a string that is not a recognized name in any letter case maps to INFO.
C25_LevelNameRoundTrip ==
  /\ last.op = "levelName" => stringToLogLevel(last.text) = last.level
  /\ (last.op = "setLevelByName" /\ last.text \in CanonicalNames) =>
        logLevelToString(last.level) = last.text
  /\ (last.op = "setLevelByName" /\ toLowerCase(last.text) \notin RecognizedNames) =>
        last.level = INFO

\* SILENT, set by name, reads back as 'silent'
C25_Witness ==
  /\ last.op = "levelName" /\ last.level = SILENT /\ last.text = "silent"
  /\ loggers[last.logger].config.level # SILENT

\* C27: when the backend is unavailable the load is attempted once and at
\* most one diagnostic is written, however many child loggers are created.
C27_SingleLoadAttempt ==
  /\ Cardinality({l \in Ids : loggers[l].winston # "none"}) <= 1
  /\ Cardinality({l \in Ids : loggers[l].winston = "failed"}) <= 1

\* C28: the tracked group stack is the labels of the groups opened and not
\* yet closed, in opening order: group and groupCollapsed add their label at
\* the end, groupEnd removes the last one, and groupEnd on an empty stack
\* leaves it empty.
C28_GroupStackTracksOpenGroups ==
  [][\A l \in DOMAIN loggers :
       LET before == loggers[l].groupStack
           after == loggers'[l].groupStack
       IN /\ (last'.op \in {"group", "groupCollapsed"} /\ last'.logger = l) =>
               /\ Len(after) = Len(before) + 1
               /\ after[Len(after)] = last'.text
               /\ \A i \in DOMAIN before : after[i] = before[i]
          /\ (last'.op = "groupEnd" /\ last'.logger = l) =>
               /\ Len(after) = (IF Len(before) = 0 THEN 0 ELSE Len(before) - 1)
               /\ \A i \in DOMAIN after : after[i] = before[i]]_vars

\* an inner group was closed and the outer one is still open
C28_Witness ==
  /\ last.op = "groupEnd"
  /\ loggers[last.logger].groupStack = <<"outer">>

\* the positions of a token in a text
Positions(out, token) == {i \in DOMAIN out : out[i] = token}
\* the nodes a text expands
Expanded(out) == {n \in Nodes : Positions(out, "open " \o n) # {}}
\* the references met by a walk from root that expands the nodes of set
References(h, root, set) ==
  {<<"root", root>> : n \in {root} \cap Nodes}
    \cup {e \in set \X Slots : h[e[1]][e[2]] \in Nodes}

\* C21: safeStringify terminates on every object graph, cyclic ones
\* included, and emits an object only at its first occurrence in the walk:
\* every later occurrence is the string "[Circular]".
C21_CyclesBecomeCircular ==
  (last.op = "safeStringify" /\ ~last.threw) =>
     /\ ~last.diverged
     /\ \A n \in Nodes : Cardinality(Positions(last.out, "open " \o n)) <= 1
     /\ Cardinality(Positions(last.out, Circular)) + Cardinality(Expanded(last.out))
          = Cardinality(References(heap, last.root, Expanded(last.out)))

\* n1 holds itself and n2, and n2 holds n1 again: both back references are
\* emitted as "[Circular]"
C21_Witness ==
  /\ last.op = "safeStringify" /\ last.root = "n1" /\ ~last.threw /\ ~last.diverged
  /\ heap["n1"] = [slot \in Slots |-> IF slot = "s1" THEN "n1" ELSE "n2"]
  /\ heap["n2"] = [slot \in Slots |-> IF slot = "s1" THEN Prim ELSE "n1"]
  /\ last.out = <<"open n1", "userPassword", Circular, "name",
                  "open n2", "0", Prim, "1", Circular, "close", "close">>

\* C22: safeStringify returns a string and never raises, whatever the value,
\* a value whose property read or conversion hook raises included.
C22_SerializeNeverRaises ==
  last.op = "safeStringify" => ~last.threw /\ ~last.diverged /\ last.out # <<>>

\* C23: for every nested value on which it returns, filterSensitiveData
\* returns a structure of the shape of its input in which, at every depth,
\* the value under a key whose lower-cased name contains a lower-cased
\* sensitive substring is "[REDACTED]", and a primitive under any other key
\* is the input's value (a nested object or array is rebuilt in place).
C23_RedactsMatchingKeys ==
  (last.op = "filterSensitiveData" /\ ~last.diverged) =>
    /\ last.out # <<>>
    /\ last.out[1] = (IF last.root \in Nodes THEN "open " \o last.root ELSE last.root)
    /\ \A n \in Nodes, slot \in Slots :
         /\ Cardinality(Positions(last.out, EntryToken(n, slot)))
              = Cardinality(Positions(last.out, "open " \o n))
         /\ \A i \in Positions(last.out, EntryToken(n, slot)) :
              last.out[i + 1] =
                (IF \E k \in DOMAIN last.sensitiveKeys :
                       includes(toLowerCase(KeyOf(n, slot)), toLowerCase(last.sensitiveKeys[k]))
                 THEN Redacted
                 ELSE IF heap[n][slot] \in Nodes THEN "open " \o heap[n][slot]
                 ELSE heap[n][slot])

\* {userPassword: v, name: {userPassword: v, name: v}} under the default
\* list: the password is redacted at both depths, the inner name is kept
C23_Witness ==
  /\ last.op = "filterSensitiveData" /\ last.root = "n1"
  /\ last.sensitiveKeys = DefaultSensitiveKeys
  /\ last.out = <<"open n1", "n1.userPassword", Redacted, "n1.name",
                  "open n3", "n3.userPassword", Redacted, "n3.name", Prim,
                  "close", "close">>

\* C24: filterSensitiveData terminates and returns a value for every input,
\* an object graph with a circular reference included.
C24_FilterTerminates ==
  last.op = "filterSensitiveData" => ~last.diverged /\ ~last.threw

\* C26: the JSON rendering of an entry has a metadata key exactly when the
\* entry has metadata; without metadata there is no such key (no null, no
\* empty object, no placeholder string).
C26_MetadataKeyIffMetadata ==
  last.op = "formatLogEntry" =>
    /\ "metadata" \in last.json.keys <=> last.entry.hasMetadata
    /\ ~last.entry.hasMetadata => last.json.metadata = "absent"

\* C29: without an explicit path, on a runtime with the file-system
\* capability loadConfigFromFile returns the config of the first of
\* logan.config.json, logan.config.js, .loganrc, package.json that exists
\* and parses, and {} only when none does; on a runtime without the
\* capability it returns {}.
C29_FirstValidFile ==
  last.op = "loadConfigFromFile" =>
    LET valid == {i \in DOMAIN possiblePaths : last.files[i] = "valid"}
    IN last.text =
         (IF ~getRuntimeCapabilities(last.runtime).fileSystem \/ valid = {} THEN "{}"
          ELSE possiblePaths[CHOOSE i \in valid : \A j \in valid : i <= j])

====
